---- MODULE Spec2Model ----
(***************************************************************************)
(* Ychat server (server/index.js): the Socket.IO room session and message  *)
(* delivery engine, with the MongoDB message collection (24 h TTL index)   *)
(* it stores messages in.  One action per event handler step; an async     *)
(* handler is split at its await into the steps the event loop can         *)
(* interleave with other handlers.                                         *)
(***************************************************************************)
EXTENDS Integers, Sequences, FiniteSets, TLC

\* ------------------------------------------------------------------ bounds
OneMsg == 1         \* Message documents built in one run
MaxClock == 24      \* the clock stops advancing here (hours)
TickHours == 12     \* one step of the clock (hours)
TwoJoins == 2       \* joinRoom submissions of one form in flight
MaxJoins == 1       \* joinRoom handlers one connection has in flight
TwoMsgs == 2        \* Message documents built where two sends race

\* ------------------------------------------------------- program constants
ExpireAfter == 24   \* createdAt index { expires: '24h' } (hours)

\* ------------------------------------------------------------ input sets
Conns == {"s1", "s2"}
Rooms == {"lobby", "den"}
Users == {"alice", "bob"}
Avatars == {"pic"}
Undefined == "undefined"
\* payloads of chatMessage as the client builds them: a text message, and an
\* image message (empty text, image data)
ChatPayloads ==
  { [text |-> "hi", image |-> Undefined], [text |-> "", image |-> "img"] }

VARIABLES
  sockets,      \* per connection: status, roomName, username, avatar, rooms
  roomUsers,    \* room name -> list of {username, avatar}
  readReceipts, \* message id (string) -> list of usernames
  store,        \* the Message collection, in insertion order
  clock,        \* Date.now(), in hours
  nextId,       \* next ObjectId to hand out
  joins,        \* joinRoom handlers suspended at await Message.find
  chats,        \* chatMessage handlers suspended at await newMessage.save
  out,          \* the handler step taken last and what it emitted
  persisted,    \* the documents saved, in the order their save succeeded
  broadcasts,   \* ids in the order their chatMessage was broadcast
  expired,      \* ids the TTL monitor has deleted
  clients       \* per connection, the chat view of its client (App.js)

vars == << sockets, roomUsers, readReceipts, store, clock, nextId, joins,
           chats, out, persisted, broadcasts, expired, clients >>

\* what the server process and the collection hold
serverVars == << sockets, roomUsers, readReceipts, store, clock, nextId,
                 joins, chats, out, persisted, broadcasts, expired >>

\* ------------------------------------------------------------- sequences
Includes(list, x) == \E i \in DOMAIN list : list[i] = x

CountUser(list, u) == Cardinality({ i \in DOMAIN list : list[i].username = u })

HasUser(list, u) == \E i \in DOMAIN list : list[i].username = u

\* ids are ObjectIds in the documents and strings everywhere else
ObjectId(n) == << "ObjectId", n >>

IdToString(oid) == oid[2]

\* ------------------------------------------------------------- socket.io
NewSocket ==
  [ status |-> "none", roomName |-> Undefined, username |-> Undefined,
    avatar |-> Undefined, rooms |-> {} ]

\* io.to(roomName): every connection subscribed to the room
IoTo(roomName) == { c \in Conns : roomName \in sockets[c].rooms }

\* faulty variant of SocketTo: io.to(roomName) in the typing handlers
SocketToAll(c, roomName) == IoTo(roomName)

\* socket.to(roomName): the room without the emitting socket
SocketTo(c, roomName) == IoTo(roomName) \ {c}

\* faulty variant of SocketEmit: io.emit, every open connection
IoEmit(c) == { d \in Conns : sockets[d].status = "connected" }

\* socket.emit: the connection itself; packets to a closed socket are dropped
SocketEmit(c) == IF sockets[c].status = "connected" THEN {c} ELSE {}

Emit(event, to, data) == [ event |-> event, to |-> to, data |-> data ]

Step(kind, c, roomName, username, id, emits) ==
  [ kind |-> kind, conn |-> c, roomName |-> roomName, username |-> username,
    id |-> id, emits |-> emits ]

\* --------------------------------------------------------- Room registry
\* faulty variant of AddUser: the list is created anew on every join
AddUserAnew(ru, roomName, username, avatar) ==
  [ r \in (DOMAIN ru) \cup {roomName} |->
      IF r = roomName
      THEN << [username |-> username, avatar |-> avatar] >>
      ELSE ru[r] ]

\* faulty variant of AddUser: push without the find() test
AddUserAlways(ru, roomName, username, avatar) ==
  LET list == IF roomName \in DOMAIN ru THEN ru[roomName] ELSE << >>
  IN  [ r \in (DOMAIN ru) \cup {roomName} |->
          IF r = roomName
          THEN Append(list, [username |-> username, avatar |-> avatar])
          ELSE ru[r] ]

\* joinRoom: create the list on first use, add the user unless present
AddUser(ru, roomName, username, avatar) ==
  LET list == IF roomName \in DOMAIN ru THEN ru[roomName] ELSE << >>
      added == IF HasUser(list, username)
               THEN list
               ELSE Append(list, [username |-> username, avatar |-> avatar])
  IN  [ r \in (DOMAIN ru) \cup {roomName} |->
          IF r = roomName THEN added ELSE ru[r] ]

\* faulty variant of RemoveUser: the filter compares the wrong field
RemoveUserNone(list, userName) ==
  SelectSeq(list, LAMBDA u : u.avatar # userName)

\* disconnect: drop every entry of that username
RemoveUser(list, userName) ==
  SelectSeq(list, LAMBDA u : u.username # userName)

\* --------------------------------------------------------- Message store
\* faulty variant of NewMessage: readBy left to its schema default
NewMessageUnread(id, roomName, user, text, avatar, now) ==
  [ _id |-> ObjectId(id), roomName |-> roomName, user |-> user,
    avatar |-> avatar, text |-> text, createdAt |-> now,
    readBy |-> << >> ]

\* new Message({...}): _id and the createdAt default are set on construction;
\* fields that are not in the schema (image) are dropped
NewMessage(id, roomName, user, text, avatar, now) ==
  [ _id |-> ObjectId(id), roomName |-> roomName, user |-> user,
    avatar |-> avatar, text |-> text, createdAt |-> now,
    readBy |-> << user >> ]

\* required: true on a String path rejects undefined and the empty string
Validates(doc) ==
  /\ doc.roomName # Undefined /\ doc.roomName # ""
  /\ doc.user # Undefined /\ doc.user # ""
  /\ doc.text # Undefined /\ doc.text # ""

\* toObject() followed by _id = _id.toString()
ToObject(doc) == [ doc EXCEPT !._id = IdToString(doc._id) ]

RECURSIVE InsertSorted(_, _)
InsertSorted(sorted, doc) ==
  IF sorted = << >> THEN << doc >>
  ELSE IF sorted[Len(sorted)].createdAt <= doc.createdAt
       THEN Append(sorted, doc)
       ELSE Append(InsertSorted(SubSeq(sorted, 1, Len(sorted) - 1), doc),
                   sorted[Len(sorted)])

RECURSIVE SortByCreatedAt(_)
SortByCreatedAt(docs) ==
  IF docs = << >> THEN << >>
  ELSE InsertSorted(SortByCreatedAt(SubSeq(docs, 1, Len(docs) - 1)),
                    docs[Len(docs)])

\* Message.find({ roomName }).sort({ createdAt: 1 })
Find(roomName) ==
  SortByCreatedAt(SelectSeq(store, LAMBDA d : d.roomName = roomName))

\* the documents the TTL monitor deletes at time now
IsExpired(doc, now) == doc.createdAt + ExpireAfter <= now

\* faulty variant of Purge: an index that expires nothing
PurgeNothing(docs, now) == docs

\* what the TTL monitor leaves in the collection
Purge(docs, now) == SelectSeq(docs, LAMBDA d : ~ IsExpired(d, now))

\* recentMessages.map(msg => toObject, _id string, readBy default)
MapMessages(docs) == [ i \in DOMAIN docs |-> ToObject(docs[i]) ]

\* --------------------------------------------------- Read-receipt tracker
\* faulty variant of MarkRead: an id without a list is ignored
MarkReadKnown(rr, messageId, username) ==
  IF messageId \in DOMAIN rr
  THEN [ rr EXCEPT ![messageId] =
           IF Includes(@, username) THEN @ ELSE Append(@, username) ]
  ELSE [ k \in (DOMAIN rr) \cup {messageId} |->
           IF k = messageId THEN << >> ELSE rr[k] ]

\* faulty variant of MarkRead: push without the includes() test
MarkReadPush(rr, messageId, username) ==
  LET list == IF messageId \in DOMAIN rr THEN rr[messageId] ELSE << >>
  IN  [ k \in (DOMAIN rr) \cup {messageId} |->
          IF k = messageId THEN Append(list, username) ELSE rr[k] ]

\* messageRead: create the list on first use, push the username unless there
MarkRead(rr, messageId, username) ==
  LET list == IF messageId \in DOMAIN rr THEN rr[messageId] ELSE << >>
      added == IF Includes(list, username) THEN list
               ELSE Append(list, username)
  IN  [ k \in (DOMAIN rr) \cup {messageId} |->
          IF k = messageId THEN added ELSE rr[k] ]

\* readReceipts[messageObj._id] = messageObj.readBy
SetReceipts(rr, messageId, readBy) ==
  [ k \in (DOMAIN rr) \cup {messageId} |->
      IF k = messageId THEN readBy ELSE rr[k] ]

\* ------------------------------------------------------------ the client
\* the chat view of App.js: the text in the input box, the idle timers that
\* are pending, whether typingTimeoutRef holds a timer, and the events the
\* handler that ran last emitted; and what the listeners keep: isJoined, the
\* message list, the users list and the typing users
NewClient ==
  [ currentMessage |-> "", timers |-> 0, typingTimeoutRef |-> FALSE,
    emitted |-> << >>, isJoined |-> FALSE, messages |-> << >>, reads |-> << >>,
    usersList |-> << >>, typingUsers |-> << >> ]

\* clearTimeout(typingTimeoutRef.current): the timer the ref holds, when it
\* has not fired yet, is cancelled
ClearTimeout(cl) ==
  IF cl.typingTimeoutRef /\ cl.timers > 0 THEN cl.timers - 1 ELSE cl.timers

\* faulty variant of HandleTyping: the pending timer is not cleared
HandleTypingNoClear(cl) ==
  [ cl EXCEPT !.timers = @ + 1, !.typingTimeoutRef = TRUE,
              !.emitted = << "typing" >> ]

\* handleTyping: emit typing, clear the timer the ref holds, start a new one
HandleTyping(cl) ==
  [ cl EXCEPT !.timers = ClearTimeout(cl) + 1, !.typingTimeoutRef = TRUE,
              !.emitted = << "typing" >> ]

\* socket.on('readReceipt'): the readBy of that message is replaced
OnReadReceipt(cl, data) ==
  [ cl EXCEPT !.messages =
      [ i \in DOMAIN cl.messages |->
          IF cl.messages[i]._id = data.messageId
          THEN [ cl.messages[i] EXCEPT !.readBy = data.readBy ]
          ELSE cl.messages[i] ] ]

\* the listeners of App.js, by event
Receive(cl, event, data) ==
  CASE event = "joinedRoom" ->
         [ cl EXCEPT !.isJoined = TRUE, !.messages = data.messages ]
    [] event = "chatMessage" ->
         [ cl EXCEPT !.messages = Append(@, data) ]
    [] event = "usersList" ->
         [ cl EXCEPT !.usersList = data.users ]
    [] event = "readReceipt" -> OnReadReceipt(cl, data)
    [] event = "userTyping" ->
         [ cl EXCEPT !.typingUsers =
             IF Includes(@, data.username) THEN @
             ELSE Append(@, data.username) ]
    [] event = "userStopTyping" ->
         [ cl EXCEPT !.typingUsers =
             SelectSeq(@, LAMBDA u : u # data.username) ]
    [] OTHER -> cl

\* the events of one handler step reach a client in the order of their emits
RECURSIVE ReceiveAll(_, _, _)
ReceiveAll(cl, emits, c) ==
  IF emits = << >> THEN cl
  ELSE ReceiveAll(IF c \in Head(emits).to
                  THEN Receive(cl, Head(emits).event, Head(emits).data)
                  ELSE cl,
                  Tail(emits), c)

\* setMessages ran: one of these events reached the client
SetsMessages(emits, c) ==
  \E i \in DOMAIN emits :
    /\ c \in emits[i].to
    /\ emits[i].event \in {"joinedRoom", "chatMessage", "readReceipt"}

\* the read-receipt effect: when the message list was set, a messageRead is
\* emitted for every message whose readBy lacks the client's username
UseEffectReads(cl, username, ran) ==
  IF ran
  THEN [ cl EXCEPT !.reads = @ \o
           [ k \in 1..Len(SelectSeq(cl.messages,
                   LAMBDA m : ~ Includes(m.readBy, username))) |->
               SelectSeq(cl.messages,
                   LAMBDA m : ~ Includes(m.readBy, username))[k]._id ] ]
  ELSE cl

\* ------------------------------------------------------------------ Init
Init ==
  /\ sockets = [ c \in Conns |-> NewSocket ]
  /\ roomUsers = [ r \in {} |-> << >> ]
  /\ readReceipts = [ k \in {} |-> << >> ]
  /\ store = << >>
  /\ clock = 0
  /\ nextId = 1
  /\ joins = {}
  /\ chats = {}
  /\ out = Step("init", Undefined, Undefined, Undefined, 0, << >>)
  /\ persisted = << >>
  /\ broadcasts = << >>
  /\ expired = {}
  /\ clients = [ c \in Conns |-> NewClient ]

\* io.on('connection')
Connect(c) ==
  /\ sockets[c].status = "none"
  /\ sockets' = [ sockets EXCEPT ![c].status = "connected" ]
  /\ out' = Step("connection", c, Undefined, Undefined, 0, << >>)
  /\ UNCHANGED << roomUsers, readReceipts, store, clock, nextId, joins,
                  chats, persisted, broadcasts, expired,
                  clients >>

\* ---------------------------------------------------------------- joinRoom
\* faulty variant of JoinRoom: the username is taken out of the list of the
\* room the socket was associated with before
JoinRoomLeaving(c, roomName, username, avatar) ==
  /\ sockets[c].status = "connected"
  /\ sockets' = [ sockets EXCEPT
                    ![c].rooms = @ \cup {roomName},
                    ![c].roomName = roomName,
                    ![c].username = username,
                    ![c].avatar = avatar ]
  /\ LET prev == sockets[c].roomName
         left == IF prev \in DOMAIN roomUsers /\ prev # roomName
                 THEN [ roomUsers EXCEPT
                          ![prev] = RemoveUser(@, sockets[c].username) ]
                 ELSE roomUsers
     IN  roomUsers' = AddUser(left, roomName, username, avatar)
  /\ joins' = joins \cup
       { [ conn |-> c, roomName |-> roomName, stage |-> "finding",
           messages |-> << >>, usersThen |-> roomUsers'[roomName] ] }
  /\ out' = Step("joinRoom", c, roomName, username, 0, << >>)
  /\ UNCHANGED << readReceipts, store, clock, nextId, chats, persisted,
                  broadcasts, expired,
                  clients >>

\* socket.on('joinRoom'), up to the await: subscribe, set the socket's
\* fields, add the member, start the history query (usersThen records the
\* member list at this moment; no handler reads it)
JoinRoom(c, roomName, username, avatar) ==
  /\ sockets[c].status = "connected"
  /\ sockets' = [ sockets EXCEPT
                    ![c].rooms = @ \cup {roomName},
                    ![c].roomName = roomName,
                    ![c].username = username,
                    ![c].avatar = avatar ]
  /\ roomUsers' = AddUser(roomUsers, roomName, username, avatar)
  /\ joins' = joins \cup
       { [ conn |-> c, roomName |-> roomName, stage |-> "finding",
           messages |-> << >>, usersThen |-> roomUsers'[roomName] ] }
  /\ out' = Step("joinRoom", c, roomName, username, 0, << >>)
  /\ UNCHANGED << readReceipts, store, clock, nextId, chats, persisted,
                  broadcasts, expired,
                  clients >>

\* the query runs in the store
JoinFind(t) ==
  /\ t \in joins /\ t.stage = "finding"
  /\ joins' = (joins \ {t}) \cup
       { [ t EXCEPT !.stage = "found",
                    !.messages = MapMessages(Find(t.roomName)) ] }
  /\ out' = Step("find", t.conn, t.roomName, Undefined, 0, << >>)
  /\ UNCHANGED << sockets, roomUsers, readReceipts, store, clock, nextId,
                  chats, persisted, broadcasts, expired,
                  clients >>

\* faulty variant of JoinDone: the member list taken before the await
JoinDoneSnapshot(t) ==
  /\ t \in joins /\ t.stage = "found"
  /\ joins' = joins \ {t}
  /\ out' = Step("joinedRoom", t.conn, t.roomName, Undefined, 0,
       << Emit("joinedRoom", SocketEmit(t.conn),
               [ roomName |-> t.roomName, messages |-> t.messages ]),
          Emit("usersList", IoTo(t.roomName), [ users |-> t.usersThen ]) >>)
  /\ UNCHANGED << sockets, roomUsers, readReceipts, store, clock, nextId,
                  chats, persisted, broadcasts, expired,
                  clients >>

\* faulty variant of JoinDone: the presence broadcast before the reply
JoinDoneListFirst(t) ==
  /\ t \in joins /\ t.stage = "found"
  /\ joins' = joins \ {t}
  /\ out' = Step("joinedRoom", t.conn, t.roomName, Undefined, 0,
       << Emit("usersList", IoTo(t.roomName),
               [ users |-> roomUsers[t.roomName] ]),
          Emit("joinedRoom", SocketEmit(t.conn),
               [ roomName |-> t.roomName, messages |-> t.messages ]) >>)
  /\ UNCHANGED << sockets, roomUsers, readReceipts, store, clock, nextId,
                  chats, persisted, broadcasts, expired,
                  clients >>

\* faulty variant of JoinDone: usersList sent with socket.emit
JoinDoneToSelf(t) ==
  /\ t \in joins /\ t.stage = "found"
  /\ joins' = joins \ {t}
  /\ out' = Step("joinedRoom", t.conn, t.roomName, Undefined, 0,
       << Emit("joinedRoom", SocketEmit(t.conn),
               [ roomName |-> t.roomName, messages |-> t.messages ]),
          Emit("usersList", SocketEmit(t.conn),
               [ users |-> roomUsers[t.roomName] ]) >>)
  /\ UNCHANGED << sockets, roomUsers, readReceipts, store, clock, nextId,
                  chats, persisted, broadcasts, expired,
                  clients >>

\* the await resolves: joinedRoom to the socket, usersList to the room
JoinDone(t) ==
  /\ t \in joins /\ t.stage = "found"
  /\ joins' = joins \ {t}
  /\ out' = Step("joinedRoom", t.conn, t.roomName, Undefined, 0,
       << Emit("joinedRoom", SocketEmit(t.conn),
               [ roomName |-> t.roomName, messages |-> t.messages ]),
          Emit("usersList", IoTo(t.roomName),
               [ users |-> roomUsers[t.roomName] ]) >>)
  /\ UNCHANGED << sockets, roomUsers, readReceipts, store, clock, nextId,
                  chats, persisted, broadcasts, expired,
                  clients >>

\* the await rejects (store unreachable): joinError to the socket
JoinFail(t) ==
  /\ t \in joins /\ t.stage = "finding"
  /\ joins' = joins \ {t}
  /\ out' = Step("joinError", t.conn, t.roomName, Undefined, 0,
       << Emit("joinError", SocketEmit(t.conn),
               [ message |-> "Error retrieving chat history." ]) >>)
  /\ UNCHANGED << sockets, roomUsers, readReceipts, store, clock, nextId,
                  chats, persisted, broadcasts, expired,
                  clients >>

\* ------------------------------------------------------------- chatMessage
\* socket.on('chatMessage'), up to the await: build the document
ChatMessage(c, roomName, user, payload, avatar) ==
  /\ sockets[c].status = "connected"
  /\ chats' = chats \cup
       { [ conn |-> c, stage |-> "saving",
           doc |-> NewMessage(nextId, roomName, user, payload.text, avatar,
                              clock) ] }
  /\ nextId' = nextId + 1
  /\ out' = Step("chatMessage", c, roomName, user, nextId, << >>)
  /\ UNCHANGED << sockets, roomUsers, readReceipts, store, clock, joins,
                  persisted, broadcasts, expired,
                  clients >>

\* save(): the document passes validation and is inserted
ChatSave(t) ==
  /\ t \in chats /\ t.stage = "saving"
  /\ Validates(t.doc)
  /\ store' = Append(store, t.doc)
  /\ persisted' = Append(persisted, ToObject(t.doc))
  /\ chats' = (chats \ {t}) \cup { [ t EXCEPT !.stage = "saved" ] }
  /\ out' = Step("save", t.conn, t.doc.roomName, t.doc.user,
                 IdToString(t.doc._id), << >>)
  /\ UNCHANGED << sockets, roomUsers, readReceipts, clock, nextId, joins,
                  broadcasts, expired,
                  clients >>

\* the await resolves: seed the tracker, broadcast to the room
ChatDone(t) ==
  /\ t \in chats /\ t.stage = "saved"
  /\ LET messageObj == ToObject(t.doc) IN
       /\ readReceipts' =
            SetReceipts(readReceipts, messageObj._id, messageObj.readBy)
       /\ broadcasts' = Append(broadcasts, messageObj._id)
       /\ out' = Step("broadcast", t.conn, messageObj.roomName,
            messageObj.user, messageObj._id,
            << Emit("chatMessage", IoTo(messageObj.roomName), messageObj) >>)
  /\ chats' = chats \ {t}
  /\ UNCHANGED << sockets, roomUsers, store, clock, nextId, joins,
                  persisted, expired,
                  clients >>

\* save() rejects (validation error, or store unreachable): error to the
\* socket
ChatFail(t) ==
  /\ t \in chats /\ t.stage = "saving"
  /\ chats' = chats \ {t}
  /\ out' = Step("chatError", t.conn, t.doc.roomName, t.doc.user,
       IdToString(t.doc._id),
       << Emit("error", SocketEmit(t.conn),
               [ message |-> "Failed to send message." ]) >>)
  /\ UNCHANGED << sockets, roomUsers, readReceipts, store, clock, nextId,
                  joins, persisted, broadcasts, expired,
                  clients >>

\* ------------------------------------------------------------- messageRead
\* the listener: record the reader, broadcast the list to the room
OnMessageRead(c, messageId, roomName, username) ==
  /\ sockets[c].status = "connected"
  /\ readReceipts' = MarkRead(readReceipts, messageId, username)
  /\ out' = Step("messageRead", c, roomName, username, messageId,
       << Emit("readReceipt", IoTo(roomName),
               [ messageId |-> messageId,
                 readBy |-> readReceipts'[messageId] ]) >>)
  /\ UNCHANGED << sockets, roomUsers, store, clock, nextId, joins, chats,
                  persisted, broadcasts, expired >>

\* a messageRead with any payload
MessageRead(c, messageId, roomName, username) ==
  /\ OnMessageRead(c, messageId, roomName, username)
  /\ UNCHANGED clients

\* the oldest messageRead the client's effect emitted reaches the server
ReadArrives(c) ==
  /\ clients[c].reads # << >>
  /\ OnMessageRead(c, Head(clients[c].reads), sockets[c].roomName,
                   sockets[c].username)
  /\ clients' = [ clients EXCEPT ![c].reads = Tail(@) ]

\* ------------------------------------------------------- typing indicators
\* faulty variant of Typing: the handler keeps the typist in the tracker
TypingRecorded(c, roomName, username) ==
  /\ sockets[c].status = "connected"
  /\ readReceipts' = MarkRead(readReceipts, 0, username)
  /\ out' = Step("typing", c, roomName, username, 0,
       << Emit("userTyping", SocketTo(c, roomName),
               [ username |-> username ]) >>)
  /\ UNCHANGED << sockets, roomUsers, store, clock, nextId,
                  joins, chats, persisted, broadcasts, expired,
                  clients >>

Typing(c, roomName, username) ==
  /\ sockets[c].status = "connected"
  /\ out' = Step("typing", c, roomName, username, 0,
       << Emit("userTyping", SocketTo(c, roomName),
               [ username |-> username ]) >>)
  /\ UNCHANGED << sockets, roomUsers, readReceipts, store, clock, nextId,
                  joins, chats, persisted, broadcasts, expired,
                  clients >>

StopTyping(c, roomName, username) ==
  /\ sockets[c].status = "connected"
  /\ out' = Step("stopTyping", c, roomName, username, 0,
       << Emit("userStopTyping", SocketTo(c, roomName),
               [ username |-> username ]) >>)
  /\ UNCHANGED << sockets, roomUsers, readReceipts, store, clock, nextId,
                  joins, chats, persisted, broadcasts, expired,
                  clients >>

\* -------------------------------------------------------------- disconnect
\* faulty variant of Disconnect: without the test of userRoom and userName,
\* the filter throws for a socket that never joined
DisconnectUnguarded(c) ==
  /\ sockets[c].status = "connected"
  /\ LET userRoom == sockets[c].roomName
         userName == sockets[c].username
     IN IF userRoom \in DOMAIN roomUsers
        THEN /\ sockets' = [ sockets EXCEPT ![c].status = "disconnected",
                                            ![c].rooms = {} ]
             /\ roomUsers' =
                  [ roomUsers EXCEPT
                      ![userRoom] = RemoveUser(roomUsers[userRoom], userName) ]
             /\ out' = Step("disconnect", c, userRoom, userName, 0,
                  << Emit("usersList",
                          { d \in Conns : userRoom \in sockets'[d].rooms },
                          [ users |-> roomUsers'[userRoom] ]) >>)
             /\ UNCHANGED << readReceipts, store, clock, nextId, joins, chats,
                             persisted, broadcasts, expired, clients >>
        ELSE /\ sockets' = [ d \in Conns |->
                               [ sockets[d] EXCEPT !.status = "disconnected",
                                                   !.rooms = {} ] ]
             /\ roomUsers' = [ r \in {} |-> << >> ]
             /\ readReceipts' = [ k \in {} |-> << >> ]
             /\ joins' = {}
             /\ chats' = {}
             /\ out' = Step("disconnect", c, userRoom, userName, 0, << >>)
             /\ UNCHANGED << store, clock, nextId, persisted, broadcasts,
                             expired, clients >>

\* faulty variant of Disconnect: the member is removed but nothing is emitted
DisconnectQuiet(c) ==
  /\ sockets[c].status = "connected"
  /\ sockets' = [ sockets EXCEPT ![c].status = "disconnected",
                                 ![c].rooms = {} ]
  /\ LET userRoom == sockets[c].roomName
         userName == sockets[c].username
     IN IF userRoom # Undefined /\ userName # Undefined
           /\ userRoom \in DOMAIN roomUsers
        THEN roomUsers' =
               [ roomUsers EXCEPT
                   ![userRoom] = RemoveUser(roomUsers[userRoom], userName) ]
        ELSE UNCHANGED roomUsers
  /\ out' = Step("disconnect", c, sockets[c].roomName, sockets[c].username,
                 0, << >>)
  /\ UNCHANGED << readReceipts, store, clock, nextId, joins, chats,
                  persisted, broadcasts, expired,
                  clients >>

\* the socket has left its rooms when 'disconnect' fires
Disconnect(c) ==
  /\ sockets[c].status = "connected"
  /\ sockets' = [ sockets EXCEPT ![c].status = "disconnected",
                                 ![c].rooms = {} ]
  /\ LET userRoom == sockets[c].roomName
         userName == sockets[c].username
     IN IF userRoom # Undefined /\ userName # Undefined
           /\ userRoom \in DOMAIN roomUsers
        THEN /\ roomUsers' =
                  [ roomUsers EXCEPT
                      ![userRoom] = RemoveUser(roomUsers[userRoom], userName) ]
             /\ out' = Step("disconnect", c, userRoom, userName, 0,
                  << Emit("usersList",
                          { d \in Conns : userRoom \in sockets'[d].rooms },
                          [ users |-> roomUsers'[userRoom] ]) >>)
        ELSE /\ UNCHANGED roomUsers
             /\ out' = Step("disconnect", c, userRoom, userName, 0, << >>)
  /\ UNCHANGED << readReceipts, store, clock, nextId, joins, chats,
                  persisted, broadcasts, expired,
                  clients >>

\* ------------------------------------------------- events without payload
\* the process ends on an uncaught exception: every connection closes and
\* what the server held in memory is gone; the collection stays
ProcessExit(kind, c) ==
  /\ sockets' = [ d \in Conns |->
                    [ sockets[d] EXCEPT !.status = "disconnected",
                                        !.rooms = {} ] ]
  /\ roomUsers' = [ r \in {} |-> << >> ]
  /\ readReceipts' = [ k \in {} |-> << >> ]
  /\ joins' = {}
  /\ chats' = {}
  /\ out' = Step(kind, c, Undefined, Undefined, 0, << >>)
  /\ UNCHANGED << store, clock, nextId, persisted, broadcasts, expired,
                  clients >>

\* messageRead, typing or stopTyping emitted with no payload: destructuring
\* the parameter throws inside the listener, and nothing catches it
ThrowInHandler(c) ==
  /\ sockets[c].status = "connected"
  /\ ProcessExit("uncaughtException", c)

\* joinRoom or chatMessage emitted with no payload: the async listener's
\* promise rejects before its try block and nothing handles the rejection;
\* the runtime either ends the process or only logs a warning
RejectInHandler(c) ==
  /\ sockets[c].status = "connected"
  /\ \/ ProcessExit("unhandledRejection", c)
     \/ /\ out' = Step("rejectionWarning", c, Undefined, Undefined, 0, << >>)
        /\ UNCHANGED << sockets, roomUsers, readReceipts, store, clock,
                        nextId, joins, chats, persisted, broadcasts, expired,
                  clients >>

\* ------------------------------------------------------ the client's input
\* onChange of the message box: the text is kept and handleTyping runs
OnChange(c, text) ==
  /\ clients' = [ clients EXCEPT
                    ![c] = HandleTyping([ @ EXCEPT !.currentMessage = text ]) ]
  /\ UNCHANGED serverVars

\* sendMessage: nothing for an empty text; else emit chatMessage, empty the
\* box, emit stopTyping (the idle timer is left as it is)
SendMessage(c) ==
  /\ clients[c].currentMessage # ""
  /\ clients' = [ clients EXCEPT
                    ![c].currentMessage = "",
                    ![c].emitted = << "chatMessage", "stopTyping" >> ]
  /\ UNCHANGED serverVars

\* the idle timer fires after 2000 ms: emit stopTyping
TimerFires(c) ==
  /\ clients[c].timers > 0
  /\ clients' = [ clients EXCEPT ![c].timers = @ - 1,
                                 ![c].emitted = << "stopTyping" >> ]
  /\ UNCHANGED serverVars

\* ------------------------------------------------------------- delivery
\* the events of the last handler step arrive: each client's listeners run
Deliver ==
  /\ out.emits # << >>
  /\ clients' = [ c \in Conns |->
       UseEffectReads(ReceiveAll(clients[c], out.emits, c),
                      sockets[c].username, SetsMessages(out.emits, c)) ]
  /\ out' = [ out EXCEPT !.emits = << >> ]
  /\ UNCHANGED << sockets, roomUsers, readReceipts, store, clock, nextId,
                  joins, chats, persisted, broadcasts, expired >>

\* ------------------------------------------------------- time and the TTL
\* the clock advances; the TTL monitor runs more often than the clock ticks
Tick ==
  /\ ~ \E i \in DOMAIN store : IsExpired(store[i], clock)
  /\ clock' = clock + TickHours
  /\ out' = Step("tick", Undefined, Undefined, Undefined, 0, << >>)
  /\ UNCHANGED << sockets, roomUsers, readReceipts, store, nextId, joins,
                  chats, persisted, broadcasts, expired,
                  clients >>

\* the TTL monitor deletes the documents whose createdAt is 24 h old
Sweep ==
  /\ \E i \in DOMAIN store : IsExpired(store[i], clock)
  /\ store' = Purge(store, clock)
  /\ expired' = expired \cup
       { IdToString(store[i]._id) : i \in { j \in DOMAIN store :
                                             IsExpired(store[j], clock) } }
  /\ out' = Step("sweep", Undefined, Undefined, Undefined, 0, << >>)
  /\ UNCHANGED << sockets, roomUsers, readReceipts, clock, nextId, joins,
                  chats, persisted, broadcasts,
                  clients >>

\* ------------------------------------------------------- the environment
\* What the clients send is bounded in the next-state relations, not in the
\* handlers: a connection has at most MaxJoins joinRoom in flight (one in all
\* where messages are sent too), a bounded number of documents is built, and
\* the clock stops at MaxClock.
MayJoin(c) == Cardinality({ t \in joins : t.conn = c }) < MaxJoins

\* one joinRoom in flight at a time
NoJoinInFlight == joins = {}

MaySend(n) == nextId <= n

MayTick == clock < MaxClock

\* the username a client types into the join form, one per connection
UserOf(c) == IF c = "s1" THEN "alice" ELSE "bob"

IsJoined(c) == sockets[c].roomName # Undefined

Connects == \E c \in Conns : Connect(c)

\* joinRoom with any room and any username
JoinRooms ==
  \E c \in Conns, r \in Rooms, u \in Users, a \in Avatars :
    MayJoin(c) /\ JoinRoom(c, r, u, a)

\* joinRoom with any room and username, one at a time
JoinRoomsAlone ==
  \E c \in Conns, r \in Rooms, u \in Users, a \in Avatars :
    NoJoinInFlight /\ JoinRoom(c, r, u, a)

\* joinRoom with any room and the connection's own username, one at a time
JoinRoomsOwn ==
  \E c \in Conns, r \in Rooms, a \in Avatars :
    NoJoinInFlight /\ JoinRoom(c, r, UserOf(c), a)

\* joinRoom for the lobby with the connection's own username, one at a time
JoinLobbyOwn ==
  \E c \in Conns, a \in Avatars :
    NoJoinInFlight /\ JoinRoom(c, "lobby", UserOf(c), a)

\* joinRoom for the lobby whose payload has no room name or no username, one
\* at a time
JoinRoomsLacking ==
  \E c \in Conns, r \in {"lobby", Undefined}, a \in Avatars :
  \E u \in {UserOf(c), Undefined} :
    /\ r = Undefined \/ u = Undefined
    /\ NoJoinInFlight /\ JoinRoom(c, r, u, a)

\* joinRoom for the lobby with the connection's own username, while the
\* joins of other connections are awaiting
JoinLobbyOwnRacing ==
  \E c \in Conns, a \in Avatars :
    MayJoin(c) /\ JoinRoom(c, "lobby", UserOf(c), a)

JoinSteps ==
  \E t \in joins : JoinFind(t) \/ JoinDone(t) \/ JoinFail(t)

\* chatMessage with any room and any author
ChatMessages(n) ==
  \E c \in Conns, r \in Rooms, u \in Users, p \in ChatPayloads,
     a \in Avatars : MaySend(n) /\ ChatMessage(c, r, u, p, a)

\* chatMessage as the client sends it: its room, its username
ChatMessagesOwn(n) ==
  \E c \in Conns, p \in ChatPayloads, a \in Avatars :
    /\ MaySend(n) /\ IsJoined(c)
    /\ ChatMessage(c, sockets[c].roomName, sockets[c].username, p, a)

\* chatMessage for the lobby whose payload has no room name or no author
ChatMessagesLacking(n) ==
  \E c \in Conns, r \in {"lobby", Undefined}, p \in ChatPayloads,
     a \in Avatars :
  \E u \in {UserOf(c), Undefined} :
    /\ r = Undefined \/ u = Undefined
    /\ MaySend(n) /\ ChatMessage(c, r, u, p, a)

ChatSteps ==
  \E t \in chats : ChatSave(t) \/ ChatDone(t) \/ ChatFail(t)

\* messageRead with any id, any room and any username
MessageReads(n) ==
  \E c \in Conns, id \in 1..n, r \in Rooms, u \in Users :
    MessageRead(c, id, r, u)

\* messageRead as the client sends it: its room, its username
MessageReadsOwn(n) ==
  \E c \in Conns, id \in 1..n :
    /\ IsJoined(c)
    /\ MessageRead(c, id, sockets[c].roomName, sockets[c].username)

Typings ==
  \E c \in Conns, r \in Rooms, u \in Users :
    Typing(c, r, u) \/ StopTyping(c, r, u)

\* typing and stopTyping as the client sends them: its room, its username
TypingsOwn ==
  \E c \in Conns :
    /\ IsJoined(c)
    /\ \/ Typing(c, sockets[c].roomName, sockets[c].username)
       \/ StopTyping(c, sockets[c].roomName, sockets[c].username)

Disconnects == \E c \in Conns : Disconnect(c)

Time == (MayTick /\ Tick) \/ Sweep

\* what a user types into the message box
Texts == {"", "h", "hi"}

\* the message box is shown to a client that has joined
Keystrokes ==
  \E c \in Conns, text \in Texts :
    /\ sockets[c].status = "connected" /\ IsJoined(c)
    /\ OnChange(c, text)

Sends ==
  \E c \in Conns :
    /\ sockets[c].status = "connected" /\ IsJoined(c)
    /\ SendMessage(c)

TimerFirings == \E c \in Conns : TimerFires(c)

\* the events of the last handler step have reached the clients
Delivered == out.emits = << >>

\* messageRead events of the clients' effects, in the order of their emits
ReadArrivals == \E c \in Conns : ReadArrives(c)

\* joinRoom for the lobby from the join form, which a client shows until its
\* join has been answered
JoinLobbyFromForm ==
  \E c \in Conns, a \in Avatars :
    /\ MayJoin(c) /\ ~ clients[c].isJoined
    /\ JoinRoom(c, "lobby", UserOf(c), a)

\* the same form, whose button does not wait for the answer: at most
\* TwoJoins submissions of a connection are in flight
JoinLobbyResubmitted ==
  \E c \in Conns, a \in Avatars :
    /\ Cardinality({ t \in joins : t.conn = c }) < TwoJoins
    /\ ~ clients[c].isJoined
    /\ JoinRoom(c, "lobby", UserOf(c), a)

\* chatMessage from the chat view, which a client shows once its join has
\* been answered: its room, its username
ChatMessagesFromView(n) ==
  \E c \in Conns, p \in ChatPayloads, a \in Avatars :
    /\ MaySend(n) /\ clients[c].isJoined
    /\ ChatMessage(c, sockets[c].roomName, sockets[c].username, p, a)

\* typing and stopTyping from the chat view: its room, its username
TypingsFromView ==
  \E c \in Conns :
    /\ clients[c].isJoined
    /\ \/ Typing(c, sockets[c].roomName, sockets[c].username)
       \/ StopTyping(c, sockets[c].roomName, sockets[c].username)

\* events emitted with no payload at all
NoPayloads == \E c \in Conns : ThrowInHandler(c) \/ RejectInHandler(c)

\* the whole server
Next ==
  \/ Connects
  \/ JoinRooms
  \/ JoinSteps
  \/ ChatMessages(OneMsg)
  \/ ChatSteps
  \/ MessageReads(OneMsg)
  \/ Typings
  \/ Disconnects
  \/ Time
  \/ NoPayloads

Spec == Init /\ [][Next]_vars

\* Membership and presence: joins with any room and username, disconnects.
NextPresence ==
  \/ Connects
  \/ JoinRooms
  \/ JoinSteps
  \/ Disconnects

SpecPresence == Init /\ [][NextPresence]_vars

\* Membership with a message in flight: joins with any room and username,
\* one at a time, one message sent by a joined client, disconnects.
NextSession ==
  \/ Connects
  \/ JoinRoomsAlone
  \/ JoinSteps
  \/ ChatMessagesOwn(OneMsg)
  \/ ChatSteps
  \/ Disconnects

SpecSession == Init /\ [][NextSession]_vars

\* Typing indicators: joins, typing and stopTyping with any room and
\* username, disconnects.
NextTyping ==
  \/ Connects
  \/ JoinRooms
  \/ JoinSteps
  \/ Typings
  \/ Disconnects

SpecTyping == Init /\ [][NextTyping]_vars

\* Message delivery and read receipts: one message with any room and author,
\* messageRead with any room and username.
NextChat ==
  \/ Connects
  \/ JoinRoomsOwn
  \/ JoinSteps
  \/ ChatMessages(OneMsg)
  \/ ChatSteps
  \/ MessageReads(OneMsg)
  \/ Disconnects

SpecChat == Init /\ [][NextChat]_vars

\* Retention: the clients of one room, their message and reads, the clock
\* and the TTL monitor.
NextTTL ==
  \/ Connects
  \/ JoinLobbyOwn
  \/ JoinSteps
  \/ ChatMessagesOwn(OneMsg)
  \/ ChatSteps
  \/ MessageReadsOwn(OneMsg)
  \/ Time

SpecTTL == Init /\ [][NextTTL]_vars

\* Concurrent sends: the clients of one room and two messages whose saves
\* and broadcasts interleave.
NextOrder ==
  \/ Connects
  \/ JoinLobbyOwn
  \/ JoinSteps
  \/ ChatMessagesOwn(TwoMsgs)
  \/ ChatSteps

SpecOrder == Init /\ [][NextOrder]_vars

\* Payloads with missing fields: the clients of one room and their message,
\* and joinRoom and chatMessage that name no room or no user.
NextLacking ==
  \/ Connects
  \/ JoinLobbyOwn
  \/ JoinRoomsLacking
  \/ JoinSteps
  \/ ChatMessagesOwn(OneMsg)
  \/ ChatMessagesLacking(OneMsg)
  \/ ChatSteps

SpecLacking == Init /\ [][NextLacking]_vars

\* Failures: the clients of one room and their message, store failures, and
\* events that arrive without a payload.
NextFaults ==
  \/ Connects
  \/ JoinLobbyOwn
  \/ JoinSteps
  \/ ChatMessagesOwn(OneMsg)
  \/ ChatSteps
  \/ NoPayloads

SpecFaults == Init /\ [][NextFaults]_vars

\* Concurrent membership: connections with distinct usernames join one room
\* and disconnect, their joins overlapping.
NextMembers ==
  \/ Connects
  \/ JoinLobbyOwnRacing
  \/ JoinSteps
  \/ Disconnects

SpecMembers == Init /\ [][NextMembers]_vars

\* Typing next to stored state: the clients of one room, their message and
\* reads, and their typing indicators.
NextIndicators ==
  \/ Connects
  \/ JoinLobbyOwn
  \/ JoinSteps
  \/ ChatMessagesOwn(OneMsg)
  \/ ChatSteps
  \/ MessageReadsOwn(OneMsg)
  \/ TypingsOwn

SpecIndicators == Init /\ [][NextIndicators]_vars

\* Concurrent sends over time: the clients of one room, two messages whose
\* saves interleave, the clock and the TTL monitor.
NextStamps ==
  \/ Connects
  \/ JoinLobbyOwn
  \/ JoinSteps
  \/ ChatMessagesOwn(TwoMsgs)
  \/ ChatSteps
  \/ Time

SpecStamps == Init /\ [][NextStamps]_vars

\* The typing protocol of the client: the clients of one room, their
\* keystrokes, sends and idle timers.  A pending timer fires in the end.
NextTypist ==
  \/ Connects
  \/ JoinLobbyOwn
  \/ JoinSteps
  \/ Keystrokes
  \/ Sends
  \/ TimerFirings

SpecTypist ==
  /\ Init /\ [][NextTypist]_vars
  /\ \A c \in Conns : WF_vars(TimerFires(c))

\* The clients' views: the clients of one room and one message; what a
\* handler step emits reaches the clients before the next handler step.
NextViews ==
  \/ Deliver
  \/ Delivered /\ Connects
  \/ Delivered /\ JoinLobbyFromForm
  \/ Delivered /\ JoinSteps
  \/ Delivered /\ ChatMessagesFromView(OneMsg)
  \/ Delivered /\ ChatSteps
  \/ Delivered /\ ReadArrivals

SpecViews == Init /\ [][NextViews]_vars

\* Typing indicators as the clients show them, with connections that close.
NextTypers ==
  \/ Deliver
  \/ Delivered /\ Connects
  \/ Delivered /\ JoinLobbyFromForm
  \/ Delivered /\ JoinSteps
  \/ Delivered /\ TypingsFromView
  \/ Delivered /\ Disconnects

SpecTypers == Init /\ [][NextTypers]_vars

\* The same, where the join form may be submitted again before the answer to
\* the first submission has arrived.
NextResubmit ==
  \/ Deliver
  \/ Delivered /\ Connects
  \/ Delivered /\ JoinLobbyResubmitted
  \/ Delivered /\ JoinSteps
  \/ Delivered /\ ChatMessagesFromView(OneMsg)
  \/ Delivered /\ ChatSteps
  \/ Delivered /\ ReadArrivals

SpecResubmit == Init /\ [][NextResubmit]_vars

\* ================================================================ claims
Subscribers(roomName) == { c \in Conns : roomName \in sockets[c].rooms }

Count(list, x) == Cardinality({ i \in DOMAIN list : list[i] = x })

Elems(list) == { list[i] : i \in DOMAIN list }

Ids(docs) == { docs[i]._id : i \in DOMAIN docs }

\* C1: when the save of a chatMessage fails, the only event sent is one
\* 'error' to the sending connection (to nobody if it has closed); nothing is
\* broadcast, nothing is stored and the read-receipt tracker is left as it was.
C1_FailedSendNotifiesOnlySender ==
  [][ out'.kind = "chatError" =>
        /\ Len(out'.emits) = 1
        /\ out'.emits[1].event = "error"
        /\ out'.emits[1].to \subseteq {out'.conn}
        /\ (sockets[out'.conn].status = "connected"
              => out'.emits[1].to = {out'.conn})
        /\ readReceipts' = readReceipts
        /\ broadcasts' = broadcasts
        /\ store' = store ]_vars

\* a failed send whose sender shares the room with another connection
C1_Witness ==
  /\ out.kind = "chatError"
  /\ out.emits[1].to = {out.conn}
  /\ out.roomName \in sockets[out.conn].rooms
  /\ \E d \in Conns \ {out.conn} : out.roomName \in sockets[d].rooms

\* C2 (as claimed): after a failed history fetch only the requester gets
\* joinError, and the connection has no room or username, is not in the
\* room's member list and is not subscribed to the room.
C2_JoinFailureLeavesConnected ==
  out.kind = "joinError" =>
    /\ Len(out.emits) = 1
    /\ out.emits[1].event = "joinError"
    /\ out.emits[1].to \subseteq {out.conn}
    /\ sockets[out.conn].roomName = Undefined
    /\ sockets[out.conn].username = Undefined
    /\ out.roomName \notin sockets[out.conn].rooms
    /\ ~ HasUser(roomUsers[out.roomName], sockets[out.conn].username)

\* C3: every member list holds each username at most once, and right after a
\* joinRoom the joining username is in its room's list exactly once.
C3_MemberListHasNoDuplicates ==
  /\ \A r \in DOMAIN roomUsers : \A u \in Users :
       CountUser(roomUsers[r], u) <= 1
  /\ out.kind = "joinRoom" =>
       CountUser(roomUsers[out.roomName], out.username) = 1

\* a second connection joins a room under the username of a connection that
\* is still joined to it
C3_Witness ==
  /\ out.kind = "joinRoom"
  /\ \E d \in Conns \ {out.conn} :
       /\ sockets[d].status = "connected"
       /\ sockets[d].roomName = out.roomName
       /\ sockets[d].username = out.username
  /\ Len(roomUsers[out.roomName]) = 1

\* C4: every saved message is broadcast once and only once (none before its
\* handler resumes, one after); the broadcast goes to every connection
\* subscribed to the room named in the message, the sender included when it
\* is subscribed, and carries the saved document with its own id and
\* readBy = [author].
C4_SavedMessageBroadcastOnce ==
  /\ \A i \in DOMAIN persisted :
       LET id == persisted[i]._id
           waiting == \E t \in chats :
                        t.stage = "saved" /\ IdToString(t.doc._id) = id
       IN  /\ Cardinality({ j \in DOMAIN persisted : persisted[j]._id = id }) = 1
           /\ \/ waiting /\ Count(broadcasts, id) = 0
              \/ ~ waiting /\ Count(broadcasts, id) = 1
  /\ Elems(broadcasts) \subseteq Ids(persisted)
  /\ out.kind = "broadcast" =>
       /\ Len(out.emits) = 1
       /\ out.emits[1].event = "chatMessage"
       /\ out.emits[1].to = Subscribers(out.emits[1].data.roomName)
       /\ out.emits[1].data \in Elems(persisted)
       /\ out.emits[1].data._id = out.id
       /\ out.emits[1].data.readBy = << out.emits[1].data.user >>

\* a broadcast that reaches the sender and another connection
C4_Witness ==
  /\ out.kind = "broadcast"
  /\ out.conn \in out.emits[1].to
  /\ out.emits[1].to = Conns

\* C5 (as claimed, for a messageRead that names the message's own room): the
\* readReceipt goes to every connection of the message's room and its readBy
\* holds the author and the new reader.
C5_ReadReceiptCarriesFullSet ==
  \A i \in DOMAIN store :
    ( /\ out.kind = "messageRead"
      /\ out.id = IdToString(store[i]._id)
      /\ out.roomName = store[i].roomName )
    => /\ Len(out.emits) = 1
       /\ out.emits[1].event = "readReceipt"
       /\ out.emits[1].to = Subscribers(store[i].roomName)
       /\ out.emits[1].data.messageId = out.id
       /\ {store[i].user, out.username} \subseteq Elems(out.emits[1].data.readBy)

\* C6: a messageRead leaves its username in the message's reader list exactly
\* once, and a messageRead whose username is already in the list changes no
\* reader list.
C6_MessageReadIdempotent ==
  [][ out'.kind = "messageRead" =>
        /\ Count(readReceipts'[out'.id], out'.username) = 1
        /\ ( /\ out'.id \in DOMAIN readReceipts
             /\ Includes(readReceipts[out'.id], out'.username) )
           => readReceipts' = readReceipts ]_vars

\* a repeated messageRead: the username sits before a later reader, in a list
\* that only messageRead has written
C6_Witness ==
  /\ out.kind = "messageRead"
  /\ out.id \notin Elems(broadcasts)
  /\ Len(readReceipts[out.id]) = 2
  /\ readReceipts[out.id][1] = out.username

\* C7: typing and stopTyping send one userTyping / userStopTyping, to the
\* connections subscribed to the named room other than the originator.
C7_TypingNotEchoed ==
  out.kind \in {"typing", "stopTyping"} =>
    /\ Len(out.emits) = 1
    /\ out.emits[1].event =
         (IF out.kind = "typing" THEN "userTyping" ELSE "userStopTyping")
    /\ out.emits[1].to = Subscribers(out.roomName) \ {out.conn}
    /\ out.conn \notin out.emits[1].to
    /\ out.emits[1].data.username = out.username

\* a typing event from a member of a room with another member
C7_Witness ==
  /\ out.kind = "typing"
  /\ out.roomName \in sockets[out.conn].rooms
  /\ out.emits[1].to # {}

\* C8: a disconnect of a joined connection takes its username out of its
\* room's list (one entry, no other entry), and no step that resumes an
\* awaiting joinRoom or chatMessage changes a member list.
C8_DisconnectRemovesMemberOnce ==
  [][ /\ (out'.kind = "disconnect" /\ out'.roomName # Undefined) =>
           /\ CountUser(roomUsers'[out'.roomName], out'.username) = 0
           /\ CountUser(roomUsers[out'.roomName], out'.username) <= 1
           /\ Len(roomUsers'[out'.roomName]) =
                Len(roomUsers[out'.roomName])
                  - CountUser(roomUsers[out'.roomName], out'.username)
           /\ \A r \in DOMAIN roomUsers \ {out'.roomName} :
                roomUsers'[r] = roomUsers[r]
      /\ out'.kind \in {"find", "joinedRoom", "joinError", "save",
                        "broadcast", "chatError"}
           => roomUsers' = roomUsers ]_vars

\* the chatMessage of a connection completes after its disconnect, and the
\* username stays out of the list
C8_Witness ==
  /\ out.kind = "broadcast"
  /\ sockets[out.conn].status = "disconnected"
  /\ sockets[out.conn].roomName = out.roomName
  /\ sockets[out.conn].username = out.username
  /\ ~ HasUser(roomUsers[out.roomName], out.username)

\* C9 (as claimed): a history fetch returns every saved message of the room
\* that is less than 24 h old and no message that is 24 h old or older.
C9_HistoryWithin24Hours ==
  [][ out'.kind = "find" =>
        \A t \in joins' \ joins :
          /\ \A i \in DOMAIN persisted :
               ( /\ persisted[i].roomName = t.roomName
                 /\ clock - persisted[i].createdAt < ExpireAfter )
               => persisted[i]._id \in Ids(t.messages)
          /\ \A i \in DOMAIN t.messages :
               clock - t.messages[i].createdAt < ExpireAfter ]_vars

\* C10: a message the TTL monitor has deleted is never in the collection
\* again, and no history fetch made after the deletion returns it.
C10_NoResurrection ==
  [][ /\ \A i \in DOMAIN store' : IdToString(store'[i]._id) \notin expired'
      /\ out'.kind = "find" =>
           \A t \in joins' \ joins :
             \A i \in DOMAIN t.messages : t.messages[i]._id \notin expired'
    ]_vars

\* a history fetch of the room after its message has expired
C10_Witness ==
  /\ out.kind = "find"
  /\ expired # {}
  /\ \E t \in joins : t.stage = "found" /\ t.messages = << >>
  /\ \E i \in DOMAIN persisted : persisted[i].roomName = out.roomName

\* C11: when a joinRoom completes, one usersList goes to every connection
\* subscribed to the room, the joining connection included while it is open,
\* and it carries the room's member list as it is then: it names every
\* subscriber joined to the room whose username no other connection uses.
C11_JoinBroadcastsUsersList ==
  out.kind = "joinedRoom" =>
    /\ Len(out.emits) = 2
    /\ out.emits[2].event = "usersList"
    /\ out.emits[2].to = Subscribers(out.roomName)
    /\ sockets[out.conn].status = "connected" => out.conn \in out.emits[2].to
    /\ out.emits[2].data.users = roomUsers[out.roomName]
    /\ \A d \in Subscribers(out.roomName) :
         ( /\ sockets[d].roomName = out.roomName
           /\ \A e \in Conns \ {d} : sockets[e].username # sockets[d].username )
         => HasUser(out.emits[2].data.users, sockets[d].username)

\* alice, then bob, join the lobby: both receive [alice, bob]
C11_Witness ==
  /\ out.kind = "joinedRoom"
  /\ out.roomName = "lobby"
  /\ out.conn = "s2"
  /\ out.emits[2].to = Conns
  /\ Len(out.emits[2].data.users) = 2
  /\ out.emits[2].data.users[1].username = "alice"
  /\ out.emits[2].data.users[2].username = "bob"

\* C12: the disconnect of a joined connection leaves its username out of its
\* room's member list and sends one usersList with the resulting list to
\* every connection still subscribed to that room, not to the one that
\* closed; a closed connection is subscribed to nothing and no handler runs
\* for it again.
C12_DisconnectBroadcastsAndEnds ==
  [][ /\ (out'.kind = "disconnect" /\ out'.roomName # Undefined) =>
           /\ ~ HasUser(roomUsers'[out'.roomName], out'.username)
           /\ Len(out'.emits) = 1
           /\ out'.emits[1].event = "usersList"
           /\ out'.emits[1].to =
                { d \in Conns \ {out'.conn} :
                    out'.roomName \in sockets[d].rooms }
           /\ out'.emits[1].data.users = roomUsers'[out'.roomName]
           /\ sockets'[out'.conn].status = "disconnected"
      /\ \A c \in Conns : sockets[c].status = "disconnected" =>
           /\ sockets'[c] = sockets[c]
           /\ sockets[c].rooms = {}
           /\ out'.kind \in {"connection", "joinRoom", "chatMessage",
                              "messageRead", "typing", "stopTyping",
                              "disconnect"} => out'.conn # c ]_vars

\* alice leaves the lobby while bob is in it: bob receives [bob]
C12_Witness ==
  /\ out.kind = "disconnect"
  /\ out.roomName = "lobby" /\ out.username = "alice"
  /\ out.emits[1].to = Conns \ {out.conn}
  /\ Len(out.emits[1].data.users) = 1
  /\ out.emits[1].data.users[1].username = "bob"

\* C13 (as claimed): the chatMessage broadcasts of two messages that
\* different connections sent to one room are made in the order in which the
\* messages were saved.
C13_BroadcastsInPersistOrder ==
  \A i, j \in DOMAIN persisted :
    ( /\ i < j
      /\ persisted[i].roomName = persisted[j].roomName
      /\ persisted[i].user # persisted[j].user )
    => \A a, b \in DOMAIN broadcasts :
         ( /\ broadcasts[a] = persisted[i]._id
           /\ broadcasts[b] = persisted[j]._id )
         => a < b

\* C14 (as claimed): a message is saved, and broadcast, only when its room
\* has a member list and the sending connection has joined it (a sender that
\* has closed since is not judged).
C14_OnlyJoinedSendersPersist ==
  [][ ( /\ out'.kind \in {"save", "broadcast"}
        /\ sockets[out'.conn].status = "connected" )
      => /\ out'.roomName \in DOMAIN roomUsers
         /\ out'.roomName \in sockets[out'.conn].rooms ]_vars

\* C15 (as claimed): where every connection joins under its own username, the
\* username of a connection is in the member list of at most one room.
C15_MemberOfAtMostOneRoom ==
  \A c \in Conns :
    Cardinality({ r \in DOMAIN roomUsers :
                    HasUser(roomUsers[r], UserOf(c)) }) <= 1

\* C16 (as claimed): for every stored message that has been broadcast, the
\* readBy a history fetch returns holds the same readers as the tracker's
\* list for that message.
C16_StoreAndTrackerAgree ==
  \A i \in DOMAIN store :
    LET messageObj == ToObject(store[i]) IN
      ( /\ messageObj._id \in Elems(broadcasts)
        /\ messageObj._id \in DOMAIN readReceipts )
      => Elems(messageObj.readBy) = Elems(readReceipts[messageObj._id])

\* C17 (as claimed): a messageRead whose message id is not in the collection
\* leaves the tracker as it was and delivers no event to any connection.
C17_UnknownMessageReadSwallowed ==
  [][ ( /\ out'.kind = "messageRead"
        /\ \A i \in DOMAIN store : IdToString(store[i]._id) # out'.id )
      => /\ readReceipts' = readReceipts
         /\ \A k \in DOMAIN out'.emits : out'.emits[k].to = {} ]_vars

\* C18 (as claimed): a joinRoom without a room name or a username adds no
\* member, subscribes nothing and sets no field of the connection; a
\* chatMessage without a room name or an author changes no member list, no
\* connection, no reader list and nothing stored, and no such message is
\* ever saved or broadcast.
C18_LackingNamesRejected ==
  [][ /\ ( /\ out'.kind = "joinRoom"
            /\ (out'.roomName = Undefined \/ out'.username = Undefined) )
         => /\ roomUsers' = roomUsers
            /\ sockets' = sockets
      /\ ( /\ out'.kind = "chatMessage"
            /\ (out'.roomName = Undefined \/ out'.username = Undefined) )
         => /\ roomUsers' = roomUsers
            /\ sockets' = sockets
            /\ readReceipts' = readReceipts
            /\ store' = store
      /\ out'.kind \in {"save", "broadcast"}
         => (out'.roomName # Undefined /\ out'.username # Undefined) ]_vars

\* C19 (as claimed): the messages of a history fetch are the saved messages
\* of that room that are less than 24 h old, each once and no other message,
\* in ascending order of createdAt; a room without messages gives the empty
\* sequence.
C19_HistoryIsRoomsLiveMessages ==
  [][ out'.kind = "find" =>
        \A t \in joins' \ joins :
          /\ t.stage = "found"
          /\ Ids(t.messages) =
               { persisted[i]._id : i \in
                   { j \in DOMAIN persisted :
                       /\ persisted[j].roomName = t.roomName
                       /\ clock - persisted[j].createdAt < ExpireAfter } }
          /\ \A i \in DOMAIN t.messages : t.messages[i].roomName = t.roomName
          /\ \A i, j \in DOMAIN t.messages :
               i < j => /\ t.messages[i].createdAt <= t.messages[j].createdAt
                        /\ t.messages[i]._id # t.messages[j]._id ]_vars

\* C20 (as claimed): the document built from an image message (of the two
\* payloads, the one with the empty text) passes the schema's validation, so
\* that it is saved and broadcast, and it carries the image.
C20_ImageMessageAccepted ==
  \A t \in chats :
    t.doc.text = "" =>
      /\ Validates(t.doc)
      /\ "image" \in DOMAIN t.doc

\* C21 (as claimed): every failure while handling an event of a connection
\* (a failed fetch or save, an event without payload) sends one error event
\* to that connection and to no other, and leaves every other connection as
\* it was.
C21_FailuresBecomeErrorEvents ==
  [][ out'.kind \in {"joinError", "chatError", "uncaughtException",
                     "unhandledRejection", "rejectionWarning"}
      => /\ Len(out'.emits) = 1
         /\ out'.emits[1].event \in {"error", "joinError"}
         /\ out'.emits[1].to \subseteq {out'.conn}
         /\ \A d \in Conns \ {out'.conn} : sockets'[d] = sockets[d] ]_vars

\* C22: a joinRoom that completes sends its joinedRoom reply, with the room
\* name and the fetched messages, to the requesting connection first and the
\* usersList of that room after it; no other step sends a joinedRoom.
C22_ReplyBeforePresence ==
  /\ out.kind = "joinedRoom" =>
       /\ out.emits[1].event = "joinedRoom"
       /\ out.emits[1].to \subseteq {out.conn}
       /\ sockets[out.conn].status = "connected" => out.emits[1].to = {out.conn}
       /\ out.emits[1].data.roomName = out.roomName
       /\ \A i, j \in DOMAIN out.emits :
            ( /\ out.emits[i].event = "joinedRoom"
              /\ out.emits[j].event = "usersList" ) => i < j
       /\ \E j \in DOMAIN out.emits : out.emits[j].event = "usersList"
  /\ out.kind # "joinedRoom" =>
       \A i \in DOMAIN out.emits : out.emits[i].event # "joinedRoom"

\* a join whose reply reaches the joiner and whose usersList reaches the
\* joiner and another member
C22_Witness ==
  /\ out.kind = "joinedRoom"
  /\ out.emits[1].to = {out.conn}
  /\ out.emits[2].event = "usersList"
  /\ out.emits[2].to = Conns

\* C23 (as claimed): the usersList of a join whose connection is still open
\* carries the member list as it was when the joinRoom event arrived, and the
\* usersList of a disconnect the list as the disconnect left it.
C23_ListOfTheTriggeringEvent ==
  [][ /\ ( /\ out'.kind = "joinedRoom"
            /\ sockets[out'.conn].status = "connected" ) =>
           \A t \in joins \ joins' :
             out'.emits[2].data.users = t.usersThen
      /\ (out'.kind = "disconnect" /\ out'.emits # << >>) =>
           out'.emits[1].data.users = roomUsers'[out'.roomName] ]_vars

\* C23 (amended): every usersList carries the member list of its room as it
\* is at the moment the broadcast is sent: for a join, the list after the
\* awaited fetch, with what other joins and disconnects did to it meanwhile;
\* for a disconnect, the list the removal has just produced.
C23_ListOfTheBroadcastMoment ==
  [][ \A k \in DOMAIN out'.emits :
        out'.emits[k].event = "usersList" =>
          /\ out'.kind \in {"joinedRoom", "disconnect"}
          /\ out'.emits[k].data.users = roomUsers'[out'.roomName]
          /\ out'.kind = "joinedRoom" => roomUsers' = roomUsers
          /\ out'.kind = "disconnect" =>
               roomUsers'[out'.roomName] =
                 RemoveUser(roomUsers[out'.roomName], out'.username) ]_vars

\* bob's join completes after alice, who was in the room, has disconnected:
\* the list it broadcasts holds bob only
C23_Witness ==
  /\ out.kind = "joinedRoom"
  /\ out.conn = "s2" /\ out.roomName = "lobby"
  /\ sockets["s2"].username = "bob"
  /\ sockets["s1"].status = "disconnected"
  /\ sockets["s1"].roomName = "lobby" /\ sockets["s1"].username = "alice"
  /\ Len(out.emits[2].data.users) = 1
  /\ out.emits[2].data.users[1].username = "bob"

\* C24: a joinRoom from a connection associated with another room sets the
\* connection's room and username to the new ones, subscribes it to the new
\* room as well, has the username in the new room's list, and changes the
\* member list of no other room: the entry in the previous room stays.
C24_RejoinKeepsOldRoomList ==
  [][ ( /\ out'.kind = "joinRoom"
        /\ sockets[out'.conn].roomName # Undefined
        /\ sockets[out'.conn].roomName # out'.roomName )
      => /\ sockets'[out'.conn].roomName = out'.roomName
         /\ sockets'[out'.conn].username = out'.username
         /\ sockets'[out'.conn].rooms =
              sockets[out'.conn].rooms \cup {out'.roomName}
         /\ CountUser(roomUsers'[out'.roomName], out'.username) = 1
         /\ \A r \in DOMAIN roomUsers \ {out'.roomName} :
              roomUsers'[r] = roomUsers[r] ]_vars

\* alice, listed in the lobby, joins the den: she is listed in both
C24_Witness ==
  /\ out.kind = "joinRoom"
  /\ out.roomName = "den" /\ out.username = "alice"
  /\ sockets[out.conn].rooms = {"lobby", "den"}
  /\ \A d \in Conns \ {out.conn} : sockets[d].status = "none"
  /\ HasUser(roomUsers["lobby"], "alice")
  /\ HasUser(roomUsers["den"], "alice")

\* C25 (as claimed): where every connection joins under its own username,
\* the username of a connection that has disconnected is in no room's member
\* list.
C25_DisconnectClearsEveryRoom ==
  \A c \in Conns :
    sockets[c].status = "disconnected" =>
      \A r \in DOMAIN roomUsers : ~ HasUser(roomUsers[r], UserOf(c))

\* the usernames of the open connections whose joinRoom for the room has
\* been handled
JoinedNames(roomName) ==
  { sockets[c].username : c \in
      { d \in Conns : /\ sockets[d].status = "connected"
                      /\ sockets[d].roomName = roomName } }

Names(list) == { list[i].username : i \in DOMAIN list }

\* C26: where the connections have distinct usernames and join one room, in
\* every state, whatever handlers are awaiting, the room's member list holds
\* each username once and exactly the usernames of the connections that have
\* sent joinRoom and have not disconnected; and every usersList carries such
\* a complete list.
C26_NoLostMembershipUpdate ==
  /\ \A r \in DOMAIN roomUsers :
       /\ Names(roomUsers[r]) = JoinedNames(r)
       /\ Len(roomUsers[r]) = Cardinality(JoinedNames(r))
  /\ \A k \in DOMAIN out.emits :
       out.emits[k].event = "usersList" =>
         /\ Names(out.emits[k].data.users) = JoinedNames(out.roomName)
         /\ Len(out.emits[k].data.users) = Cardinality(JoinedNames(out.roomName))

\* alice disconnects while her own join and bob's are awaiting: the list
\* broadcast holds bob only
C26_Witness ==
  /\ out.kind = "disconnect" /\ out.conn = "s1"
  /\ Cardinality(joins) = 2
  /\ out.emits[1].to = {"s2"}
  /\ Names(out.emits[1].data.users) = {"bob"}

\* C27: a typing or stopTyping event changes nothing the server holds: no
\* member list, no reader list, no stored message, no field or subscription
\* of any connection, and no handler that is awaiting.
C27_TypingChangesNoState ==
  [][ out'.kind \in {"typing", "stopTyping"} =>
        /\ roomUsers' = roomUsers
        /\ readReceipts' = readReceipts
        /\ store' = store
        /\ persisted' = persisted
        /\ sockets' = sockets
        /\ joins' = joins
        /\ chats' = chats
        /\ nextId' = nextId ]_vars

\* a typing event delivered in a room that has members, a stored message and
\* a reader list
C27_Witness ==
  /\ out.kind = "typing"
  /\ out.emits[1].to # {}
  /\ Len(roomUsers[out.roomName]) = 2
  /\ store # << >>
  /\ \E k \in DOMAIN readReceipts : Len(readReceipts[k]) = 2

\* C28 (as claimed): of two messages of one room, the one saved first has
\* the createdAt that is not the later one.
C28_CreatedAtFollowsStorageOrder ==
  \A i, j \in DOMAIN persisted :
    ( /\ i < j
      /\ persisted[i].roomName = persisted[j].roomName )
    => persisted[i].createdAt <= persisted[j].createdAt

\* C29: a messageRead for an id without a reader list creates the list, which
\* then holds the given username and nothing else; a messageRead for an id
\* with a list keeps the list's readers in their order and has the username
\* in it, appended when it was not there; the readReceipt carries that list,
\* and no other id's list changes.
C29_MessageReadCreatesOrAdds ==
  [][ out'.kind = "messageRead" =>
        /\ out'.id \notin DOMAIN readReceipts =>
             readReceipts'[out'.id] = << out'.username >>
        /\ out'.id \in DOMAIN readReceipts =>
             readReceipts'[out'.id] =
               IF Includes(readReceipts[out'.id], out'.username)
               THEN readReceipts[out'.id]
               ELSE Append(readReceipts[out'.id], out'.username)
        /\ DOMAIN readReceipts' = DOMAIN readReceipts \cup {out'.id}
        /\ \A k \in DOMAIN readReceipts \ {out'.id} :
             readReceipts'[k] = readReceipts[k]
        /\ out'.emits[1].event = "readReceipt"
        /\ out'.emits[1].data.messageId = out'.id
        /\ out'.emits[1].data.readBy = readReceipts'[out'.id] ]_vars

\* the first messageRead for an id nothing was broadcast under, delivered to
\* a member of the room
C29_Witness ==
  /\ out.kind = "messageRead"
  /\ out.id \notin Elems(broadcasts)
  /\ out.emits[1].to # {}
  /\ out.emits[1].data.readBy = << out.username >>
  /\ DOMAIN readReceipts = {out.id}

\* the event a client emitted last
LastEmitted(c) ==
  IF clients[c].emitted = << >> THEN "none"
  ELSE clients[c].emitted[Len(clients[c].emitted)]

C31_JoinedMemberIsListed ==
  ( /\ out.kind = "joinedRoom"
    /\ sockets[out.conn].status = "connected"
    /\ sockets[out.conn].roomName = out.roomName )
  => HasUser(roomUsers[out.roomName], sockets[out.conn].username)

\* the events the server sends to a room
RoomEvents ==
  {"chatMessage", "usersList", "readReceipt", "userTyping", "userStopTyping"}

\* C32 (as claimed): an event sent to a room is delivered only to
\* connections whose current room is that room.
C32_BroadcastsOnlyToCurrentRoom ==
  \A k \in DOMAIN out.emits :
    out.emits[k].event \in RoomEvents =>
      \A d \in out.emits[k].to : sockets[d].roomName = out.roomName

\* C33 (as claimed): a typing, stopTyping or messageRead event that names a
\* room its connection has not joined is delivered to nobody.
C33_OutsidersReachNoRoom ==
  ( /\ out.kind \in {"typing", "stopTyping", "messageRead"}
    /\ out.roomName \notin sockets[out.conn].rooms )
  => \A k \in DOMAIN out.emits : out.emits[k].to = {}

\* C35: whenever no handler is in flight and every emitted event has been
\* handled, the usersList last received by every connection in a room equals
\* the room's current member list (so every change of a member list, the add
\* of a joinRoom whose fetch fails included, was followed by a usersList).
C35_PresenceViewsConverge ==
  (joins = {} /\ chats = {} /\ Delivered) =>
    \A c \in Conns :
      ( /\ sockets[c].status = "connected"
        /\ sockets[c].roomName \in DOMAIN roomUsers ) =>
        clients[c].usersList = roomUsers[sockets[c].roomName]

\* C36: the read-receipt exchange quiesces with every reader shown. When no
\* handler is in flight, every event has been handled and no client has a
\* messageRead left to emit, every message a joined client displays has
\* every joined client's username in its readBy.
C36_ReadReceiptsQuiesce ==
  ( /\ joins = {} /\ chats = {} /\ Delivered
    /\ \A c \in Conns : clients[c].reads = << >> ) =>
    \A c \in Conns, d \in Conns :
      (clients[c].isJoined /\ clients[d].isJoined) =>
        \A k \in DOMAIN clients[c].messages :
          Includes(clients[c].messages[k].readBy, sockets[d].username)

\* C37: typing state does not outlive its connection. When no handler is in
\* flight and every event has been handled, so that nothing more will reach
\* the clients unless a user acts, no joined client shows the username of a
\* disconnected connection as typing.
C37_NoTypingAfterDisconnect ==
  (joins = {} /\ Delivered) =>
    \A c \in Conns, d \in Conns :
      ( /\ sockets[c].status = "disconnected"
        /\ sockets[d].status = "connected" /\ clients[d].isJoined ) =>
        ~ Includes(clients[d].typingUsers, sockets[c].username)

\* C38: the disconnect of a connection that never sent joinRoom changes no
\* member list and sends nothing.
C38_UnjoinedDisconnectIsSilent ==
  [][ ( /\ out'.kind = "disconnect"
        /\ sockets[out'.conn].roomName = Undefined )
      => /\ roomUsers' = roomUsers
         /\ out'.emits = << >>
         /\ \A d \in Conns \ {out'.conn} : sockets'[d] = sockets[d] ]_vars

\* a connection that never joined closes while another is a listed member of
\* a room
C38_Witness ==
  /\ out.kind = "disconnect"
  /\ out.roomName = Undefined
  /\ \E d \in Conns \ {out.conn} :
       /\ sockets[d].status = "connected"
       /\ sockets[d].roomName \in DOMAIN roomUsers
       /\ HasUser(roomUsers[sockets[d].roomName], sockets[d].username)

\* C34 (as claimed): once no handler is awaiting and every event has
\* arrived, the message list of a client whose join has been answered holds
\* every saved message of its room once.
C34_JoinerHasEachMessageOnce ==
  (joins = {} /\ chats = {} /\ Delivered) =>
    \A c \in Conns :
      clients[c].isJoined =>
        \A i \in DOMAIN persisted :
          persisted[i].roomName = sockets[c].roomName =>
            Cardinality({ k \in DOMAIN clients[c].messages :
                            clients[c].messages[k]._id = persisted[i]._id }) = 1
====
